---- MODULE Spec2Model ----
(***************************************************************************)
(* Model of doit-provider-k8s: the bootstrap run of main (CreateSSHKey,    *)
(* Init, ConfigureMaster) of package k8s and the certificate authority of  *)
(* package certauth.  External tools (ssh-keygen, openssl, doit, ssh, scp) *)
(* are the environment: each invocation succeeds or fails                  *)
(* nondeterministically, and has the effect on the working directory that  *)
(* its arguments name.                                                     *)
(***************************************************************************)
EXTENDS Integers, Sequences, FiniteSets, TLC

VARIABLES
    pc,          \* position of the run in main / ConfigureMaster / the CA driver
    run,         \* number of the current bootstrap run against the working directory
    disk,        \* the working directory: file name -> content
    keyCount,    \* number of keys generated so far (next fresh key is keyCount + 1)
    registry,    \* fingerprints registered with the cloud provider
    instances,   \* names of the cloud instances created so far
    tmp,         \* temporary cloud-init files present on disk (named by run)
    cloudConfigPath, \* ConfigureMaster's cloudConfigPath, 0 when unset
    fingerprint, \* main's fingerprint, <<>> when unset
    droplets,    \* ConfigureMaster's droplets: whether json.Unmarshal filled it, and the list
    masterIP,    \* ConfigureMaster's masterIP, "" when unset
    failCount,   \* sshCmd's failCount
    copyIdx,     \* installMasterAuth's position in the file list
    ops,         \* external operations performed in the current run, in order
    result,      \* outcome of the current run
    identityCalls, \* one record per CreateSSHKey call, over all runs
    initReturns, \* "none", "ok" or "err": the last return of K8s.Init
    steps,       \* the steps of the state machine entered in the current run
    verbose,     \* CA.verbose
    printed,     \* number of command outputs printed by CA.openssl
    rootRan,     \* whether the CA driver has called CreateRoot
    caCalls,     \* number of CA operations called by the CA driver
    twin,        \* a second CA given the same calls and tool outcomes, with the other verbose setting
    lastCall     \* the last CA operation called by the CA driver and its result

vars == <<pc, run, disk, keyCount, registry, instances, tmp, cloudConfigPath,
          fingerprint, droplets, masterIP, failCount, copyIdx, ops, result,
          identityCalls, initReturns, steps, verbose, printed, rootRan,
          caCalls, twin, lastCall>>

-----------------------------------------------------------------------------
(* Bounds *)

MaxRuns == 2
MaxDroplets == 2
MaxV4 == 1
MaxCACalls == 3

(* Program constants *)

maxFailCount == 5
nodeImage == "coreos-alpha"
nodeSize == "4gb"
defaultServiceIP == "10.3.0.1"
clusterName == "tcluster"
clusterRegion == "nyc1"
workDir == "/tmp/foobar"
stageDir == "/home/core/ssl"

(* Inputs of the environment *)

IPs == {"203.0.113.10", "198.51.100.7"}
WorkerNames == {"worker.example.com", "w2.example.com"}
WorkerIPs == {"172.17.0.5", "172.17.0.6"}

-----------------------------------------------------------------------------
(* The working directory *)

workerKey_shared(w) == "worker-key.pem"

workerKey(w) == w \o "-worker-key.pem"
workerCsr(w) == w \o "-worker.csr"
workerCrt_overKey(w) == w \o "-worker-key.pem"

workerCrt(w) == w \o "-worker.pem"

Files ==
    {"k8s.key", "k8s.key.pub", "ca-key.pem", "ca.pem", "ca.srl",
     "openssl.cnf", "worker-openssl.cnf",
     "apiserver-key.pem", "apiserver.csr", "apiserver.pem",
     "admin-key.pem", "admin.csr", "admin.pem"}
    \cup {workerKey(w) : w \in WorkerNames}
    \cup {workerCsr(w) : w \in WorkerNames}
    \cup {workerCrt(w) : w \in WorkerNames}

LeafCerts == {"apiserver.pem", "admin.pem"} \cup {workerCrt(w) : w \in WorkerNames}

\* kind: "none" (no such file), "key", "csr", "cert", "cnf", "serial"
\* id: the key the file holds or certifies; signer: the key that signed a cert
File(kind, id, subject, signer, san) ==
    [kind |-> kind, id |-> id, subject |-> subject, signer |-> signer, san |-> san]

NoFile == File("none", 0, "", 0, <<>>)

EmptyDir == [f \in Files |-> NoFile]

Exists(d, f) == d[f].kind # "none"

\* The state a CA operation threads through its openssl calls: the directory,
\* the number of keys generated, the number of openssl invocations, the number
\* of outputs printed, the error, and the CA's verbose field.
St(d, k, vb) ==
    [disk |-> d, keys |-> k, calls |-> 0, printed |-> 0, err |-> FALSE, verbose |-> vb]

-----------------------------------------------------------------------------
(* The external signing tool, by sub-command.  Each operator is the effect   *)
(* of one successful-or-refused invocation on the directory.                 *)

\* openssl genrsa -out <out> 2048: a fresh key
genrsa(s, out) ==
    [s EXCEPT !.disk[out] = File("key", s.keys + 1, "", 0, <<>>),
              !.keys = s.keys + 1]

\* openssl req -x509 -new -nodes -key <key> -out <out> -subj <subj>
reqX509(s, key, out, subj) ==
    IF s.disk[key].kind = "key"
    THEN [s EXCEPT !.disk[out] =
              File("cert", s.disk[key].id, subj, s.disk[key].id, <<>>)]
    ELSE [s EXCEPT !.err = TRUE]

\* openssl req -new -key <key> -out <out> -subj <subj> [-config <config>]
reqNew(s, key, out, subj, config) ==
    IF s.disk[key].kind = "key" /\ (config = "" \/ Exists(s.disk, config))
    THEN [s EXCEPT !.disk[out] =
              File("csr", s.disk[key].id, subj, 0,
                   IF config = "" THEN <<>> ELSE s.disk[config].san)]
    ELSE [s EXCEPT !.err = TRUE]

\* openssl x509 -req -in <in> -CA ca.pem -CAkey ca-key.pem -CAcreateserial
\*   -out <out> [-extensions v3_req -extfile <extfile>]
\* The serial file is created when absent and advanced by every signing.
x509Req(s, in, out, extfile) ==
    IF /\ s.disk[in].kind = "csr"
       /\ s.disk["ca.pem"].kind = "cert"
       /\ s.disk["ca-key.pem"].kind = "key"
       /\ s.disk["ca.pem"].id = s.disk["ca-key.pem"].id
       /\ (extfile = "" \/ Exists(s.disk, extfile))
    THEN [s EXCEPT !.disk[out] =
              File("cert", s.disk[in].id, s.disk[in].subject,
                   s.disk["ca-key.pem"].id,
                   IF extfile = "" THEN <<>> ELSE s.disk[extfile].san),
                   !.disk["ca.srl"] =
                       File("serial", s.disk["ca.srl"].id + 1, "", 0, <<>>)]
    ELSE [s EXCEPT !.err = TRUE]

-----------------------------------------------------------------------------
(* package certauth *)

openssl_swallow(s, t, envOk) ==
    IF envOk THEN [t EXCEPT !.calls = s.calls + 1, !.err = FALSE]
             ELSE [s EXCEPT !.calls = s.calls + 1, !.err = FALSE]

openssl_rollback(s, t, envOk) ==
    IF envOk /\ ~t.err THEN [t EXCEPT !.calls = s.calls + 1]
    ELSE [s EXCEPT !.calls = s.calls + 1, !.err = TRUE,
                   !.disk = [f \in DOMAIN s.disk |-> NoFile]]

\* if ca.verbose { fmt.Println(string(out)) }
println(s) == IF s.verbose THEN s.printed + 1 ELSE s.printed

openssl_quiet(s, t, envOk) ==
    IF envOk THEN [t EXCEPT !.calls = s.calls + 1, !.printed = println(s),
                            !.err = t.err /\ ~s.verbose]
             ELSE [s EXCEPT !.calls = s.calls + 1, !.printed = println(s),
                            !.err = ~s.verbose]

\* CA.openssl: run the tool in ca.dir; s is the state before, t the state the
\* tool leaves when the environment lets it run.  Prints the output when
\* verbose; returns the tool's error.
openssl(s, t, envOk) ==
    IF envOk THEN [t EXCEPT !.calls = s.calls + 1, !.printed = println(s)]
             ELSE [s EXCEPT !.calls = s.calls + 1, !.printed = println(s), !.err = TRUE]

CreateRoot_unchecked(s, fail) ==
    LET r1 == openssl(s, genrsa(s, "ca-key.pem"), fail # 1)
        r2 == openssl(r1, reqX509(r1, "ca-key.pem", "ca.pem", "/CN=kube-ca"), fail # 2)
    IN  [r2 EXCEPT !.err = FALSE]

\* CA.CreateRoot; fail is the openssl call the environment fails (0: none)
CreateRoot(s, fail) ==
    LET r1 == openssl(s, genrsa(s, "ca-key.pem"), fail # 1)
    IN  IF r1.err THEN r1
        ELSE openssl(r1, reqX509(r1, "ca-key.pem", "ca.pem", "/CN=kube-ca"), fail # 2)

\* os.Create(p) followed by t.Execute(f, args): steps 1 and 2 of the two
\* operations that render an extension profile
renderCnf(s, p, san, fail) ==
    IF fail = 1 THEN [s EXCEPT !.err = TRUE]
    ELSE IF fail = 2
         THEN [s EXCEPT !.disk[p] = File("cnf", 0, "", 0, <<>>), !.err = TRUE]
         ELSE [s EXCEPT !.disk[p] = File("cnf", 0, "", 0, san)]

\* the three openssl calls shared by the leaf operations (steps 3, 4, 5)
issueLeaf(s, key, csr, crt, subj, config, fail) ==
    LET r3 == openssl(s, genrsa(s, key), fail # 3)
        r4 == openssl(r3, reqNew(r3, key, csr, subj, config), fail # 4)
    IN  IF r3.err THEN r3
        ELSE IF r4.err THEN r4
        ELSE openssl(r4, x509Req(r4, csr, crt, config), fail # 5)

\* CA.CreateAPIServerKeyPair
CreateAPIServerKeyPair(s, serviceIP, masterHost, fail) ==
    LET r == renderCnf(s, "openssl.cnf", <<serviceIP, masterHost>>, fail)
    IN  IF r.err THEN r
        ELSE issueLeaf(r, "apiserver-key.pem", "apiserver.csr", "apiserver.pem",
                       "/CN=kube-apiserver", "openssl.cnf", fail)

\* CA.CreateWorkerKeyPair; the subject argument is passed to the tool as written
CreateWorkerKeyPair(s, workerFQDN, workerIP, fail) ==
    LET r == renderCnf(s, "worker-openssl.cnf", <<workerIP>>, fail)
    IN  IF r.err THEN r
        ELSE issueLeaf(r, workerKey(workerFQDN), workerCsr(workerFQDN),
                       workerCrt(workerFQDN), "/CN=${WORKER_FQDN}",
                       "worker-openssl.cnf", fail)

CreateAdminKeyPair_keep(s, fail) ==
    IF Exists(s.disk, "admin.pem") THEN s
    ELSE issueLeaf(s, "admin-key.pem", "admin.csr", "admin.pem", "/CN=kube-admin", "", fail)

\* CA.CreateAdminKeyPair
CreateAdminKeyPair(s, fail) ==
    issueLeaf(s, "admin-key.pem", "admin.csr", "admin.pem", "/CN=kube-admin", "", fail)

-----------------------------------------------------------------------------
(* package k8s: helpers *)

\* filepath.Join(k.dir, name)
Join(dir, name) == dir \o "/" \o name

\* fmt.Errorf("<prefix>: %v", err)
Wrap(prefix, err) == prefix \o ": " \o err

\* the error of a failed external process
ExitError == "exit status 1"

Op(step, tool, args, ok) == [step |-> step, tool |-> tool, args |-> args, ok |-> ok]

\* K8s.doit: append "-o json" and run doit
doit(step, args, ok) == Op(step, "doit", args \o <<"-o", "json">>, ok)

Running == [status |-> "running", err |-> ""]
Success == [status |-> "success", err |-> ""]
\* log.Fatalf in main: the run ends with the annotated error
Fatal(prefix, err) == [status |-> "failed", err |-> Wrap(prefix, err)]
\* a run-time panic: deferred calls run, then the process dies
Panic(err) == [status |-> "panic", err |-> err]

StepOrder ==
    <<"EnsureIdentity", "create_root", "issue_api_server_certificate",
      "issue_worker_certificate", "issue_admin_certificate", "RenderCloudInit",
      "CreateInstance", "ExtractAddress", "InstallCredentials">>

Step(name, status) == [name |-> name, status |-> status]

\* the record of the step that the action at pc has just run
Ran(name, err) == Append(steps, Step(name, IF err THEN "failed" ELSE "ok"))

-----------------------------------------------------------------------------
(* K8s.CreateSSHKey *)

KeyMissing_always(d) == TRUE

\* os.Stat(privateKeyPath); os.IsNotExist(err)
KeyMissing(d) == ~Exists(d, "k8s.key")

\* ssh-keygen -t rsa -q -N "" -f k8s.key: a fresh key pair
sshKeygen(d, k) ==
    [d EXCEPT !["k8s.key"] = File("key", k + 1, "", 0, <<>>),
              !["k8s.key.pub"] = File("pub", k + 1, "", 0, <<>>)]

\* the digest ssh-keygen prints for a key: one value per key
Md5(id) == "fp" \o ToString(id)

\* ssh-keygen -E md5 -lf k8s.key prints "<bits> MD5:<digest> <comment> (RSA)";
\* strings.Fields of it, the second field already cut at its first ":"
FingerprintFields(d) ==
    <<"2048", <<"MD5", Md5(d["k8s.key"].id)>>, "comment", "(RSA)">>

\* fields[1], strings.SplitN(_, ":", 2), parts[1]
ParseFingerprint(fields) == LET parts == fields[2] IN parts[2]

NeedsUpload_always(lookupErr) == TRUE

\* if err != nil after doit("ssh-key", "get", fingerprint)
NeedsUpload(lookupErr) == lookupErr

\* the return of the upload branch
UploadResult(fp, importErr) ==
    IF importErr THEN [fp |-> "", err |-> Wrap("unable to upload public key", ExitError)]
    ELSE [fp |-> fp, err |-> ""]

\* The whole of CreateSSHKey.  genOk, fpOk, getOk, importOk: whether the
\* environment lets the four external commands succeed.
CreateSSHKey(d, k, reg, genOk, fpOk, getOk, importOk) ==
    LET st == "EnsureIdentity"
        missing == KeyMissing(d)
        gen == Op(st, "ssh-keygen", <<"-t", "rsa", "-q", "-N", "", "-f", Join(workDir, "k8s.key")>>, genOk)
        d1 == IF missing /\ genOk THEN sshKeygen(d, k) ELSE d
        k1 == IF missing /\ genOk THEN k + 1 ELSE k
        o1 == IF missing THEN <<gen>> ELSE <<>>
        lf == Op(st, "ssh-keygen", <<"-E", "md5", "-lf", Join(workDir, "k8s.key")>>, fpOk)
        fp == ParseFingerprint(FingerprintFields(d1))
        lookupErr == ~(getOk /\ fp \in reg)
        get == doit(st, <<"ssh-key", "get", fp>>, ~lookupErr)
        importErr == ~(importOk /\ fp \notin reg)
        imp == doit(st, <<"ssh-key", "import", clusterName, "--public-key-file",
                          Join(workDir, "k8s.key") \o ".pub">>, ~importErr)
        base == [disk |-> d1, keys |-> k1, registry |-> reg, fp |-> "", err |-> ExitError,
                 ops |-> o1, generated |-> missing, lookup |-> "none", uploads |-> 0,
                 importErr |-> FALSE]
    IN  IF missing /\ ~genOk THEN base
        ELSE IF ~fpOk \/ ~Exists(d1, "k8s.key") THEN [base EXCEPT !.ops = o1 \o <<lf>>]
        ELSE IF NeedsUpload(lookupErr)
             THEN LET u == UploadResult(fp, importErr)
                  IN  [base EXCEPT !.ops = o1 \o <<lf, get, imp>>,
                                   !.registry = IF importErr THEN reg ELSE reg \cup {fp},
                                   !.fp = u.fp, !.err = u.err,
                                   !.lookup = IF lookupErr THEN "notfound" ELSE "found",
                                   !.uploads = 1, !.importErr = importErr]
             ELSE [base EXCEPT !.ops = o1 \o <<lf, get>>, !.fp = fp, !.err = "",
                               !.lookup = IF lookupErr THEN "notfound" ELSE "found"]

-----------------------------------------------------------------------------
(* The bootstrap run: main *)

caVars == <<verbose, printed, rootRan, caCalls, twin, lastCall>>
cloudVars == <<registry, instances>>
masterVars == <<cloudConfigPath, droplets, masterIP, failCount, copyIdx>>

NoDroplets == [parsed |-> FALSE, list |-> <<>>]

NoCall == [op |-> "none", arg |-> "", err |-> FALSE, rootRanBefore |-> FALSE,
           before |-> EmptyDir, verbose |-> FALSE, calls |-> 0, printed |-> 0]

\* the second CA before any call
NoTwin == [disk |-> EmptyDir, keys |-> 0, err |-> FALSE, printed |-> 0]

Init ==
    /\ pc = "new"
    /\ run = 1
    /\ disk = EmptyDir
    /\ keyCount = 0
    /\ registry = {}
    /\ instances = 0
    /\ tmp = {}
    /\ cloudConfigPath = 0
    /\ fingerprint = ""
    /\ droplets = NoDroplets
    /\ masterIP = ""
    /\ failCount = 0
    /\ copyIdx = 1
    /\ ops = <<>>
    /\ result = Running
    /\ identityCalls = <<>>
    /\ initReturns = "none"
    /\ steps = <<>>
    /\ verbose = FALSE
    /\ printed = 0
    /\ rootRan = FALSE
    /\ caCalls = 0
    /\ twin = NoTwin
    /\ lastCall = NoCall

\* k8s.New: os.MkdirAll(dir, 0700)
New ==
    /\ pc = "new"
    /\ \E ok \in BOOLEAN :
          IF ok THEN pc' = "identity" /\ result' = result
          ELSE pc' = "failed"
               /\ result' = Fatal("build cluster management instance", "mkdir failed")
    /\ UNCHANGED <<run, disk, keyCount, tmp, fingerprint, ops, identityCalls,
                   initReturns, steps>>
    /\ UNCHANGED <<cloudVars, masterVars, caVars>>

\* fingerprint, err := k.CreateSSHKey()
EnsureIdentity ==
    /\ pc = "identity"
    /\ \E genOk, fpOk, getOk, importOk \in BOOLEAN :
          LET r == CreateSSHKey(disk, keyCount, registry, genOk, fpOk, getOk, importOk)
          IN  /\ disk' = r.disk
              /\ keyCount' = r.keys
              /\ registry' = r.registry
              /\ ops' = ops \o r.ops
              /\ steps' = Ran("EnsureIdentity", r.err # "")
              /\ identityCalls' = Append(identityCalls,
                     [run |-> run, hadKey |-> Exists(disk, "k8s.key"),
                      generated |-> r.generated,
                      keyBefore |-> disk["k8s.key"], keyAfter |-> r.disk["k8s.key"],
                      lookup |-> r.lookup, uploads |-> r.uploads,
                      importErr |-> r.importErr,
                      fp |-> r.fp, err |-> r.err])
              /\ IF r.err = ""
                 THEN pc' = "create_root" /\ fingerprint' = r.fp /\ result' = result
                 ELSE pc' = "failed" /\ fingerprint' = fingerprint
                      /\ result' = Fatal("creating ssh key", r.err)
    /\ UNCHANGED <<run, instances, tmp, initReturns>>
    /\ UNCHANGED <<masterVars, caVars>>

-----------------------------------------------------------------------------
(* K8s.Init *)

InitNext_continue(next, err) == next

\* if err != nil { return fmt.Errorf(...) } after each CA operation; main
\* then ends the run with log.Fatalf
InitNext(next, err) == IF err THEN "failed" ELSE next

\* one CA operation of Init and the error check that follows it
InitApply(name, r, next, prefix) ==
    /\ disk' = r.disk
    /\ keyCount' = r.keys
    /\ ops' = ops \o [i \in 1..r.calls |->
                         Op(name, "openssl", <<>>, ~(r.err /\ i = r.calls))]
    /\ steps' = Ran(name, r.err)
    /\ printed' = printed + r.printed
    /\ pc' = InitNext(next, r.err)
    /\ result' = IF r.err THEN Fatal("initializing k8s", Wrap(prefix, ExitError))
                 ELSE result
    /\ initReturns' = IF r.err THEN "err"
                      ELSE IF next = "render" THEN "ok" ELSE initReturns
    /\ UNCHANGED <<run, tmp, fingerprint, identityCalls>>
    /\ UNCHANGED <<cloudVars, masterVars>>
    /\ UNCHANGED <<verbose, rootRan, caCalls, twin, lastCall>>

\* ca.CreateRoot()
InitCreateRoot ==
    /\ pc = "create_root"
    /\ \E fail \in 0..2 :
          InitApply("create_root", CreateRoot(St(disk, keyCount, verbose), fail),
                    "issue_api", "could not create root")

\* ca.CreateAPIServerKeyPair("127.0.0.1")
InitCreateAPIServerKeyPair ==
    /\ pc = "issue_api"
    /\ \E fail \in 0..5 :
          InitApply("issue_api_server_certificate",
                    CreateAPIServerKeyPair(St(disk, keyCount, verbose),
                                           defaultServiceIP, "127.0.0.1", fail),
                    "issue_worker", "could not create api server key pair")

\* ca.CreateWorkerKeyPair("worker.example.com", "172.17.0.5")
InitCreateWorkerKeyPair ==
    /\ pc = "issue_worker"
    /\ \E fail \in 0..5 :
          InitApply("issue_worker_certificate",
                    CreateWorkerKeyPair(St(disk, keyCount, verbose),
                                        "worker.example.com", "172.17.0.5", fail),
                    "issue_admin", "could not create worker key pair")

\* ca.CreateAdminKeyPair()
InitCreateAdminKeyPair ==
    /\ pc = "issue_admin"
    /\ \E fail \in {0, 3, 4, 5} :
          InitApply("issue_admin_certificate",
                    CreateAdminKeyPair(St(disk, keyCount, verbose), fail),
                    "render", "could not create admin key pair")

-----------------------------------------------------------------------------
(* K8s.ConfigureMaster *)

\* K8s.prepareMasterCloudConfig.  outcome names the call that fails:
\* ioutil.TempFile, t.Execute, f.Close, or none.  Parse of the constant
\* template cannot fail.  The file is named by the run that created it.
prepareMasterCloudConfig(t, name, outcome) ==
    IF outcome = "tempfile" THEN [tmp |-> t, path |-> 0, err |-> TRUE]
    ELSE IF outcome \in {"execute", "close"}
         THEN [tmp |-> t \cup {name}, path |-> 0, err |-> TRUE]
         ELSE [tmp |-> t \cup {name}, path |-> name, err |-> FALSE]

\* defer func() { os.Remove(cloudConfigPath) }()
deferred(t, path) == t \ {path}

\* cloudConfigPath, err := k.prepareMasterCloudConfig(); the defer is
\* registered only after the error check
RenderCloudInit ==
    /\ pc = "render"
    /\ \E outcome \in {"tempfile", "execute", "close", "ok"} :
          LET r == prepareMasterCloudConfig(tmp, run, outcome)
          IN  /\ tmp' = r.tmp
              /\ cloudConfigPath' = r.path
              /\ steps' = Ran("RenderCloudInit", r.err)
              /\ IF r.err
                 THEN pc' = "failed" /\ result' = Fatal("creating master", outcome \o " failed")
                 ELSE pc' = "create_instance" /\ result' = result
    /\ UNCHANGED <<run, disk, keyCount, fingerprint, ops, identityCalls, initReturns,
                   droplets, masterIP, failCount, copyIdx>>
    /\ UNCHANGED <<cloudVars, caVars>>

\* the records json.Unmarshal can yield: each droplet with its Networks.V4
Droplets == [v4 : UNION {[1..m -> IPs] : m \in 0..MaxV4}]
DropletLists == UNION {[1..n -> Droplets] : n \in 0..MaxDroplets}

MasterName_swapped(name, region) == "cs-" \o region \o "-master-" \o name

\* fmt.Sprintf("cs-%s-master-%s", k.name, k.region)
MasterName(name, region) == "cs-" \o name \o "-master-" \o region

\* the name ioutil.TempFile("", "mcc") gave the file of a run
TmpPath(n) == "/tmp/mcc" \o ToString(n)

UnexpectedCount_none(l) == l = 0

\* if l := len(droplets); l != 1
UnexpectedCount(l) == l # 1

\* a return of ConfigureMaster with an error, after the defer was registered
ConfigureFails(err) ==
    /\ pc' = "failed"
    /\ result' = Fatal("creating master", err)
    /\ tmp' = deferred(tmp, cloudConfigPath)

\* k.doit("droplet", "create", ...), json.Unmarshal, the count check
CreateInstance ==
    /\ pc = "create_instance"
    /\ \E doitOk, jsonOk \in BOOLEAN, list \in DropletLists :
          /\ ops' = Append(ops,
                 doit("CreateInstance",
                      <<"droplet", "create", MasterName(clusterName, clusterRegion),
                        "--output", "json", "--image", nodeImage,
                        "--region", clusterRegion, "--size", nodeSize,
                        "--ssh-keys", fingerprint,
                        "--user-data-file", TmpPath(cloudConfigPath), "--wait">>,
                      doitOk))
          /\ instances' = IF doitOk THEN instances + 1 ELSE instances
          /\ droplets' = IF doitOk /\ jsonOk THEN [parsed |-> TRUE, list |-> list]
                          ELSE NoDroplets
          /\ steps' = Ran("CreateInstance",
                          ~doitOk \/ ~jsonOk \/ UnexpectedCount(Len(list)))
          /\ IF ~doitOk THEN ConfigureFails(ExitError)
             ELSE IF ~jsonOk THEN ConfigureFails("invalid character")
             ELSE IF UnexpectedCount(Len(list))
                  THEN ConfigureFails("received unexpected number of droplets: "
                                      \o ToString(Len(list)))
                  ELSE pc' = "extract" /\ result' = result /\ tmp' = tmp
    /\ UNCHANGED <<run, disk, keyCount, registry, fingerprint, identityCalls,
                   initReturns, cloudConfigPath, masterIP, failCount, copyIdx>>
    /\ UNCHANGED caVars

ExtractAddress_fallback ==
    /\ pc = "extract"
    /\ LET absent == Len(droplets.list) = 0 \/ Len(droplets.list[1].v4) = 0
       IN  /\ steps' = Ran("ExtractAddress", FALSE)
           /\ pc' = "mkdir"
           /\ masterIP' = IF absent THEN "127.0.0.1" ELSE droplets.list[1].v4[1]
           /\ UNCHANGED <<result, tmp>>
    /\ UNCHANGED <<run, disk, keyCount, fingerprint, ops, identityCalls, initReturns,
                   cloudConfigPath, droplets, failCount, copyIdx>>
    /\ UNCHANGED <<cloudVars, caVars>>

\* masterIP := droplets[0].Networks.V4[0].IPAddress: panics when the record
\* has no IPv4 address (or there is no record); the deferred removal runs
ExtractAddress ==
    /\ pc = "extract"
    /\ LET absent == Len(droplets.list) = 0 \/ Len(droplets.list[1].v4) = 0
       IN  /\ steps' = Ran("ExtractAddress", absent)
           /\ IF absent
              THEN /\ pc' = "failed"
                   /\ result' = Panic("index out of range")
                   /\ tmp' = deferred(tmp, cloudConfigPath)
                   /\ masterIP' = masterIP
              ELSE /\ pc' = "mkdir"
                   /\ masterIP' = droplets.list[1].v4[1]
                   /\ UNCHANGED <<result, tmp>>
    /\ UNCHANGED <<run, disk, keyCount, fingerprint, ops, identityCalls, initReturns,
                   cloudConfigPath, droplets, failCount, copyIdx>>
    /\ UNCHANGED <<cloudVars, caVars>>

-----------------------------------------------------------------------------
(* K8s.installMasterAuth, K8s.sshCmd, K8s.sshCopy *)

\* host := "core@" + masterIP
Host(ip) == "core@" \o ip

sshPrefix == <<"-o", "stricthostkeychecking=no", "-i", Join(workDir, "k8s.key")>>

sshCmdContinue_inclusive(fc) == fc <= maxFailCount

\* for failCount < maxFailCount
sshCmdContinue(fc) == fc < maxFailCount

\* fmt.Errorf("command failed %d times", maxFailCount)
sshCmdError == "command failed " \o ToString(maxFailCount) \o " times"

\* the step record of InstallCredentials, entered at the first ssh attempt
Entered ==
    IF Len(steps) > 0 /\ steps[Len(steps)].name = "InstallCredentials"
    THEN steps ELSE Append(steps, Step("InstallCredentials", "running"))

Finish(ss, status) == [ss EXCEPT ![Len(ss)].status = status]

\* one iteration of sshCmd's loop for k.sshCmd(host, "mkdir", "-p", stageDir)
sshCmdAttempt ==
    /\ pc = "mkdir"
    /\ sshCmdContinue(failCount)
    /\ \E ok \in BOOLEAN :
          /\ ops' = Append(ops, Op("InstallCredentials", "ssh",
                                   sshPrefix \o <<Host(masterIP), "mkdir", "-p", stageDir>>, ok))
          /\ IF ok THEN pc' = "copy" /\ failCount' = failCount
                   ELSE pc' = pc /\ failCount' = failCount + 1
    /\ steps' = Entered
    /\ UNCHANGED <<run, disk, keyCount, tmp, fingerprint, result, identityCalls,
                   initReturns, cloudConfigPath, droplets, masterIP, copyIdx>>
    /\ UNCHANGED <<cloudVars, caVars>>

\* the loop ends with the budget used up: sshCmd, installMasterAuth and
\* ConfigureMaster return the error
sshCmdExhausted ==
    /\ pc = "mkdir"
    /\ ~sshCmdContinue(failCount)
    /\ ConfigureFails(Wrap("unable to configure tls", sshCmdError))
    /\ steps' = Finish(Entered, "failed")
    /\ UNCHANGED <<run, disk, keyCount, fingerprint, ops, identityCalls, initReturns,
                   cloudConfigPath, droplets, masterIP, failCount, copyIdx>>
    /\ UNCHANGED <<cloudVars, caVars>>

credentialFiles_swapped ==
    <<"ca.pem", "apiserver-key.pem", "apiserver.pem", "admin.pem", "admin-key.pem">>

\* []string{"ca.pem", "apiserver.pem", "apiserver-key.pem", "admin.pem", "admin-key.pem"}
credentialFiles ==
    <<"ca.pem", "apiserver.pem", "apiserver-key.pem", "admin.pem", "admin-key.pem">>

\* the arguments of scp in sshCopy(host, remoteDir, name)
scpArgs(host, remoteDir, name) ==
    sshPrefix \o <<Join(workDir, name), host \o ":" \o remoteDir \o "/" \o name>>

CopyAborts_never(err) == FALSE

\* if err != nil { return err } in installMasterAuth's loop
CopyAborts(err) == err

\* one iteration of installMasterAuth's loop: k.sshCopy(host, stageDir, f)
sshCopy ==
    /\ pc = "copy"
    /\ \E ok \in BOOLEAN :
          LET f == credentialFiles[copyIdx]
              err == ~ok \/ ~Exists(disk, f)
          IN  /\ ops' = Append(ops, Op("InstallCredentials", "scp",
                                       scpArgs(Host(masterIP), stageDir, f), ~err))
              /\ IF CopyAborts(err)
                 THEN /\ ConfigureFails(Wrap("unable to configure tls", ExitError))
                      /\ steps' = Finish(steps, "failed")
                      /\ copyIdx' = copyIdx
                 ELSE IF copyIdx = Len(credentialFiles)
                      THEN /\ pc' = "done"
                           /\ result' = Success
                           /\ tmp' = deferred(tmp, cloudConfigPath)
                           /\ steps' = Finish(steps, "ok")
                           /\ copyIdx' = copyIdx
                      ELSE /\ copyIdx' = copyIdx + 1
                           /\ UNCHANGED <<pc, result, tmp, steps>>
    /\ UNCHANGED <<run, disk, keyCount, fingerprint, identityCalls, initReturns,
                   cloudConfigPath, droplets, masterIP, failCount>>
    /\ UNCHANGED <<cloudVars, caVars>>

\* the operator runs the program again against the same working directory
Rerun ==
    /\ pc \in {"done", "failed"}
    /\ run < MaxRuns
    /\ pc' = "new"
    /\ run' = run + 1
    /\ cloudConfigPath' = 0
    /\ fingerprint' = ""
    /\ droplets' = NoDroplets
    /\ masterIP' = ""
    /\ failCount' = 0
    /\ copyIdx' = 1
    /\ ops' = <<>>
    /\ steps' = <<>>
    /\ result' = Running
    /\ initReturns' = "none"
    /\ UNCHANGED <<disk, keyCount, tmp, identityCalls>>
    /\ UNCHANGED <<cloudVars, caVars>>

Next ==
    \/ New
    \/ EnsureIdentity
    \/ InitCreateRoot
    \/ InitCreateAPIServerKeyPair
    \/ InitCreateWorkerKeyPair
    \/ InitCreateAdminKeyPair
    \/ RenderCloudInit
    \/ CreateInstance
    \/ ExtractAddress
    \/ sshCmdAttempt
    \/ sshCmdExhausted
    \/ sshCopy
    \/ Rerun

Spec == Init /\ [][Next]_vars

\* the steps of one execution of main: each is an external process invocation
\* followed by straight-line code
RunStep ==
    \/ New
    \/ EnsureIdentity
    \/ InitCreateRoot
    \/ InitCreateAPIServerKeyPair
    \/ InitCreateWorkerKeyPair
    \/ InitCreateAdminKeyPair
    \/ RenderCloudInit
    \/ CreateInstance
    \/ ExtractAddress
    \/ sshCmdAttempt
    \/ sshCmdExhausted
    \/ sshCopy

\* every external process invocation eventually returns, so the single
\* thread of main always takes its next step; nothing obliges a rerun
FairSpec == Spec /\ WF_vars(RunStep)

-----------------------------------------------------------------------------
(* A driver of package certauth: CA operations called in any order against   *)
(* one working directory, as a client of the package may call them.         *)

bootVars == <<run, registry, instances, tmp, cloudConfigPath, fingerprint, droplets,
              masterIP, failCount, copyIdx, ops, result, identityCalls,
              initReturns, steps>>

\* certauth.New(dir, opts...): verbose is set by the IsVerbose option
InitCA ==
    /\ pc = "ca"
    /\ verbose \in BOOLEAN
    /\ run = 1
    /\ disk = EmptyDir
    /\ keyCount = 0
    /\ registry = {}
    /\ instances = 0
    /\ tmp = {}
    /\ cloudConfigPath = 0
    /\ fingerprint = ""
    /\ droplets = NoDroplets
    /\ masterIP = ""
    /\ failCount = 0
    /\ copyIdx = 1
    /\ ops = <<>>
    /\ result = Running
    /\ identityCalls = <<>>
    /\ initReturns = "none"
    /\ steps = <<>>
    /\ printed = 0
    /\ rootRan = FALSE
    /\ caCalls = 0
    /\ twin = NoTwin
    /\ lastCall = NoCall

\* the effect of one CA operation called by the driver: r is its result, t the
\* result of the same call on the second CA
Called(op, arg, r, t) ==
    /\ pc = "ca"
    /\ caCalls < MaxCACalls
    /\ caCalls' = caCalls + 1
    /\ disk' = r.disk
    /\ keyCount' = r.keys
    /\ printed' = printed + r.printed
    /\ rootRan' = (rootRan \/ op = "CreateRoot")
    /\ twin' = [disk |-> t.disk, keys |-> t.keys, err |-> t.err,
                printed |-> twin.printed + t.printed]
    /\ lastCall' = [op |-> op, arg |-> arg, err |-> r.err, rootRanBefore |-> rootRan,
                    before |-> disk, verbose |-> verbose,
                    calls |-> r.calls, printed |-> r.printed]
    /\ UNCHANGED <<pc, verbose>>
    /\ UNCHANGED bootVars

\* the state the second CA starts a call from
Twin == St(twin.disk, twin.keys, ~verbose)

CallCreateRoot ==
    \E fail \in 0..2 :
        Called("CreateRoot", "", CreateRoot(St(disk, keyCount, verbose), fail),
               CreateRoot(Twin, fail))

CallCreateAPIServerKeyPair ==
    \E fail \in 0..5, masterHost \in IPs :
        Called("CreateAPIServerKeyPair", masterHost,
               CreateAPIServerKeyPair(St(disk, keyCount, verbose),
                                      defaultServiceIP, masterHost, fail),
               CreateAPIServerKeyPair(Twin, defaultServiceIP, masterHost, fail))

CallCreateWorkerKeyPair ==
    \E fail \in 0..5, w \in WorkerNames, ip \in WorkerIPs :
        Called("CreateWorkerKeyPair", w,
               CreateWorkerKeyPair(St(disk, keyCount, verbose), w, ip, fail),
               CreateWorkerKeyPair(Twin, w, ip, fail))

CallCreateAdminKeyPair ==
    \E fail \in {0, 3, 4, 5} :
        Called("CreateAdminKeyPair", "",
               CreateAdminKeyPair(St(disk, keyCount, verbose), fail),
               CreateAdminKeyPair(Twin, fail))

NextCA ==
    \/ CallCreateRoot
    \/ CallCreateAPIServerKeyPair
    \/ CallCreateWorkerKeyPair
    \/ CallCreateAdminKeyPair

SpecCA == InitCA /\ [][NextCA]_vars

-----------------------------------------------------------------------------
(* Two runs of CreateSSHKey at the same time, for the same cluster name and  *)
(* working directory.  Each external command of CreateSSHKey is one step of  *)
(* a run; nothing in the code orders the steps of one run against the steps  *)
(* of the other.  pc, fingerprint and identityCalls hold one value per run.  *)
(* The working directory is empty or is the one an earlier run left, with    *)
(* its key registered or not.                                                *)

Procs == {1, 2}

NoIdentity == [lookup |-> "none", registered |-> FALSE, uploads |-> 0,
               importErr |-> FALSE, fp |-> "", err |-> ""]

raceFixed == <<run, instances, tmp, cloudConfigPath, droplets, masterIP, failCount,
               copyIdx, result, initReturns, steps>>

InitRace ==
    /\ pc = [p \in Procs |-> "stat"]
    /\ fingerprint = [p \in Procs |-> ""]
    /\ identityCalls = [p \in Procs |-> NoIdentity]
    /\ run = 1
    /\ \/ disk = EmptyDir /\ keyCount = 0 /\ registry = {}
       \/ /\ disk = sshKeygen(EmptyDir, 0)
          /\ keyCount = 1
          /\ registry \in {{}, {Md5(1)}}
    /\ instances = 0
    /\ tmp = {}
    /\ cloudConfigPath = 0
    /\ droplets = NoDroplets
    /\ masterIP = ""
    /\ failCount = 0
    /\ copyIdx = 1
    /\ ops = <<>>
    /\ result = Running
    /\ initReturns = "none"
    /\ steps = <<>>
    /\ verbose = FALSE
    /\ printed = 0
    /\ rootRan = FALSE
    /\ caCalls = 0
    /\ twin = NoTwin
    /\ lastCall = NoCall

\* return "", err
RaceFails(p) ==
    /\ pc' = [pc EXCEPT ![p] = "returned"]
    /\ identityCalls' = [identityCalls EXCEPT ![p].err = ExitError]

\* os.Stat(privateKeyPath)
RaceStat(p) ==
    /\ pc[p] = "stat"
    /\ pc' = [pc EXCEPT ![p] = IF KeyMissing(disk) THEN "keygen" ELSE "lf"]
    /\ UNCHANGED <<disk, keyCount, registry, fingerprint, ops, identityCalls>>
    /\ UNCHANGED <<raceFixed, caVars>>

\* ssh-keygen -t rsa -q -N "" -f k8s.key; with its input closed the tool
\* refuses to overwrite a key file that has appeared since the check
RaceKeygen(p) ==
    /\ pc[p] = "keygen"
    /\ \E genOk \in BOOLEAN :
          IF genOk /\ ~Exists(disk, "k8s.key")
          THEN /\ disk' = sshKeygen(disk, keyCount)
               /\ keyCount' = keyCount + 1
               /\ pc' = [pc EXCEPT ![p] = "lf"]
               /\ identityCalls' = identityCalls
          ELSE /\ RaceFails(p)
               /\ UNCHANGED <<disk, keyCount>>
    /\ UNCHANGED <<registry, fingerprint, ops>>
    /\ UNCHANGED <<raceFixed, caVars>>

\* ssh-keygen -E md5 -lf k8s.key and the parsing of its output
RaceFingerprint(p) ==
    /\ pc[p] = "lf"
    /\ \E fpOk \in BOOLEAN :
          IF fpOk /\ Exists(disk, "k8s.key")
          THEN /\ fingerprint' = [fingerprint EXCEPT
                                     ![p] = ParseFingerprint(FingerprintFields(disk))]
               /\ pc' = [pc EXCEPT ![p] = "get"]
               /\ identityCalls' = identityCalls
          ELSE /\ RaceFails(p)
               /\ fingerprint' = fingerprint
    /\ UNCHANGED <<disk, keyCount, registry, ops>>
    /\ UNCHANGED <<raceFixed, caVars>>

\* k.doit("ssh-key", "get", fingerprint) and the branch on its error
RaceLookup(p) ==
    /\ pc[p] = "get"
    /\ \E getOk \in BOOLEAN :
          LET lookupErr == ~(getOk /\ fingerprint[p] \in registry)
          IN  /\ ops' = Append(ops, doit("EnsureIdentity",
                                         <<"ssh-key", "get", fingerprint[p]>>, ~lookupErr))
              /\ pc' = [pc EXCEPT ![p] = IF NeedsUpload(lookupErr) THEN "import"
                                         ELSE "returned"]
              /\ identityCalls' = [identityCalls EXCEPT
                     ![p].lookup = IF lookupErr THEN "notfound" ELSE "found",
                     ![p].registered = fingerprint[p] \in registry,
                     ![p].fp = IF NeedsUpload(lookupErr) THEN "" ELSE fingerprint[p]]
    /\ UNCHANGED <<disk, keyCount, registry, fingerprint>>
    /\ UNCHANGED <<raceFixed, caVars>>

\* k.doit("ssh-key", "import", k.name, "--public-key-file", publicKeyPath);
\* the registry refuses a key it already holds
RaceImport(p) ==
    /\ pc[p] = "import"
    /\ \E importOk \in BOOLEAN :
          LET importErr == ~(importOk /\ fingerprint[p] \notin registry)
              u == UploadResult(fingerprint[p], importErr)
          IN  /\ ops' = Append(ops,
                     doit("EnsureIdentity",
                          <<"ssh-key", "import", clusterName, "--public-key-file",
                            Join(workDir, "k8s.key") \o ".pub">>, ~importErr))
              /\ registry' = IF importErr THEN registry
                             ELSE registry \cup {fingerprint[p]}
              /\ pc' = [pc EXCEPT ![p] = "returned"]
              /\ identityCalls' = [identityCalls EXCEPT
                     ![p].uploads = @ + 1, ![p].importErr = importErr,
                     ![p].fp = u.fp, ![p].err = u.err]
    /\ UNCHANGED <<disk, keyCount, fingerprint>>
    /\ UNCHANGED <<raceFixed, caVars>>

NextRace ==
    \E p \in Procs :
        \/ RaceStat(p)
        \/ RaceKeygen(p)
        \/ RaceFingerprint(p)
        \/ RaceLookup(p)
        \/ RaceImport(p)

SpecRace == InitRace /\ [][NextRace]_vars

-----------------------------------------------------------------------------
(* Properties *)

Terminal == pc \in {"done", "failed"}

Rank(name) == CHOOSE i \in 1..Len(StepOrder) : StepOrder[i] = name

OpsOf(tool) == SelectSeq(ops, LAMBDA o : o.tool = tool)

\* C1: in every run the steps entered are a prefix of the fixed order
\* EnsureIdentity, create_root, issue_api_server_certificate,
\* issue_worker_certificate, issue_admin_certificate, RenderCloudInit,
\* CreateInstance, ExtractAddress, InstallCredentials, each entered once; every
\* step before the last entered one succeeded; a failed step ends the run; and
\* every external operation belongs to an entered step, in step order.
C1_FixedStepOrder ==
    /\ Len(steps) <= Len(StepOrder)
    /\ \A i \in 1..Len(steps) : steps[i].name = StepOrder[i]
    /\ \A i \in 1..(Len(steps) - 1) : steps[i].status = "ok"
    /\ \A i \in 1..Len(steps) : steps[i].status = "failed" => pc = "failed"
    /\ \A j \in 1..Len(ops) : \E i \in 1..Len(steps) : ops[j].step = steps[i].name
    /\ \A j, k \in 1..Len(ops) : j < k => Rank(ops[j].step) <= Rank(ops[k].step)

\* a run that went through all nine steps
C1_Witness ==
    /\ pc = "done"
    /\ Len(steps) = Len(StepOrder)
    /\ Len(OpsOf("scp")) = 5

\* C2: when ConfigureMaster has returned, on any exit path, the temporary
\* cloud-init file of the run does not exist.
C2_TempFileRemoved ==
    (Terminal /\ \E i \in 1..Len(steps) : steps[i].name = "RenderCloudInit")
        => run \notin tmp

SignedByCurrentRoot(d) ==
    \A c \in LeafCerts :
        Exists(d, c) =>
            /\ d["ca-key.pem"].kind = "key"
            /\ d["ca.pem"].kind = "cert"
            /\ d["ca.pem"].id = d["ca-key.pem"].id
            /\ d[c].signer = d["ca-key.pem"].id

\* C3 as claimed: after any sequence of runs, failed ones included, every
\* leaf certificate on disk was signed by the root currently on disk.
C3_LeavesSignedAfterAnyRun == Terminal => SignedByCurrentRoot(disk)

\* C3: once K8s.Init has returned without error in a run, every leaf
\* certificate on disk was signed by the root key and certificate on disk.
C3_LeavesSignedAfterInit == initReturns = "ok" => SignedByCurrentRoot(disk)

\* a rerun whose Init succeeded over the files of an earlier run
C3_Witness ==
    /\ run = 2
    /\ initReturns = "ok"
    /\ disk["ca-key.pem"].id > 4
    /\ \A c \in {"apiserver.pem", "admin.pem", workerCrt("worker.example.com")} :
           Exists(disk, c)

\* C4: sshCmd makes at most 5 attempts and none after a successful one; it
\* has returned its error exactly when 5 attempts failed, and the error names
\* the count 5; after a successful attempt it has returned without error.
C4_RetryBound ==
    LET a == OpsOf("ssh")
        allFailed == Len(a) = 5 /\ \A i \in 1..5 : ~a[i].ok
        gaveUp == result.err = "creating master: unable to configure tls: command failed 5 times"
    IN  /\ Len(a) <= 5
        /\ \A i \in 1..(Len(a) - 1) : ~a[i].ok
        /\ gaveUp => allFailed
        /\ (allFailed /\ pc # "mkdir") => (gaveUp /\ pc = "failed" /\ Len(OpsOf("scp")) = 0)
        /\ (0 < Len(a) /\ Len(a) < 5 /\ \A i \in 1..Len(a) : ~a[i].ok) => pc = "mkdir"
        /\ (Len(a) > 0 /\ a[Len(a)].ok) => (pc \in {"copy", "done", "failed"} /\ ~gaveUp)

\* five failed attempts, then the error
C4_Witness ==
    /\ Len(OpsOf("ssh")) = 5
    /\ \A i \in 1..5 : ~OpsOf("ssh")[i].ok
    /\ result.status = "failed"

\* C5: when the create call returned a list whose length is not 1, the run
\* has failed with the unexpected-count error, no address was read and no
\* ssh or scp operation was issued.
C5_UnexpectedCount ==
    (droplets.parsed /\ Len(droplets.list) # 1) =>
        /\ pc = "failed"
        /\ result = [status |-> "failed",
                     err |-> "creating master: received unexpected number of droplets: "
                             \o ToString(Len(droplets.list))]
        /\ masterIP = ""
        /\ \A i \in 1..Len(steps) :
               steps[i].name \notin {"ExtractAddress", "InstallCredentials"}
        /\ Len(OpsOf("ssh")) = 0
        /\ Len(OpsOf("scp")) = 0

\* the create call returned two records
C5_Witness ==
    /\ droplets.parsed
    /\ Len(droplets.list) = 2
    /\ pc = "failed"

\* C6: of two CreateSSHKey calls against the same working directory, when the
\* first returned a fingerprint the second does not generate a key and leaves
\* the private key file as it was, and a fingerprint it returns is the same;
\* a call that finds the private key file never invokes key generation.
C6_IdentityIdempotent ==
    /\ \A i \in 1..Len(identityCalls) :
           identityCalls[i].hadKey =>
               /\ ~identityCalls[i].generated
               /\ identityCalls[i].keyAfter = identityCalls[i].keyBefore
    /\ \A i, j \in 1..Len(identityCalls) :
           (i < j /\ identityCalls[i].err = "") =>
               /\ ~identityCalls[j].generated
               /\ identityCalls[j].keyAfter = identityCalls[i].keyAfter
               /\ identityCalls[j].err = "" => identityCalls[j].fp = identityCalls[i].fp

\* two calls in sequence that both returned a fingerprint
C6_Witness ==
    /\ Len(identityCalls) = 2
    /\ identityCalls[1].err = "" /\ identityCalls[1].generated
    /\ identityCalls[2].err = "" /\ identityCalls[2].fp # ""

CertOf(op, arg) ==
    CASE op = "CreateAPIServerKeyPair" -> "apiserver.pem"
      [] op = "CreateWorkerKeyPair" -> workerCrt(arg)
      [] op = "CreateAdminKeyPair" -> "admin.pem"

\* C7: while CreateRoot has never been called on the working directory, a
\* leaf operation (API server, worker, admin) returns an error and there is
\* no signed leaf certificate file.
C7_LeafBeforeRootFails ==
    (~rootRan /\ lastCall.op # "none") =>
        /\ lastCall.err
        /\ ~Exists(disk, CertOf(lastCall.op, lastCall.arg))
        /\ \A c \in LeafCerts : ~Exists(disk, c)

\* an admin certificate is requested without a root: the key and the request
\* are written, the signing is refused
C7_Witness ==
    /\ ~rootRan
    /\ lastCall.op = "CreateAdminKeyPair"
    /\ Exists(disk, "admin.csr")
    /\ lastCall.err

\* C8: a copy is issued only after the staging-directory command succeeded;
\* the copies are, in order, ca.pem, apiserver.pem, apiserver-key.pem,
\* admin.pem, admin-key.pem of the working directory, each to
\* core@<address>:/home/core/ssl/<name>; a failed copy is the last one and
\* ends the run with its error.
C8_CopyOrder ==
    LET c == OpsOf("scp")
        a == OpsOf("ssh")
        names == <<"ca.pem", "apiserver.pem", "apiserver-key.pem", "admin.pem", "admin-key.pem">>
    IN  /\ Len(c) <= 5
        /\ Len(c) > 0 =>
               /\ Len(a) > 0 /\ a[Len(a)].ok
               /\ a[Len(a)].args[Len(a[Len(a)].args) - 3] = "core@" \o masterIP
               /\ SubSeq(a[Len(a)].args, Len(a[Len(a)].args) - 2, Len(a[Len(a)].args))
                      = <<"mkdir", "-p", "/home/core/ssl">>
               /\ masterIP = droplets.list[1].v4[1]
        /\ \A j, k \in 1..Len(ops) :
               (ops[j].tool = "scp" /\ ops[k].tool = "ssh") => k < j
        /\ \A i \in 1..Len(c) :
               /\ c[i].args[Len(c[i].args) - 1] = "/tmp/foobar/" \o names[i]
               /\ c[i].args[Len(c[i].args)] =
                      "core@" \o masterIP \o ":/home/core/ssl/" \o names[i]
        /\ \A i \in 1..(Len(c) - 1) : c[i].ok
        /\ (Len(c) > 0 /\ ~c[Len(c)].ok) =>
               /\ pc = "failed"
               /\ result.err = "creating master: unable to configure tls: exit status 1"

\* the third copy failed: three copies were issued and the run is over
C8_Witness ==
    /\ Len(OpsOf("scp")) = 3
    /\ ~OpsOf("scp")[3].ok
    /\ pc = "failed"

Imports == SelectSeq(ops, LAMBDA o : o.tool = "doit" /\ o.args[2] = "import")

\* C9: in CreateSSHKey, when the lookup finds the fingerprint no upload is
\* issued and the fingerprint is returned; when it does not, exactly one
\* upload of k8s.key.pub under the cluster name is issued, and the call
\* returns the fingerprint if the upload succeeds and an upload error without
\* a fingerprint if it fails.
C9_LookupThenUpload ==
    \A i \in 1..Len(identityCalls) :
        LET c == identityCalls[i]
        IN  /\ c.lookup = "found" =>
                   /\ c.uploads = 0
                   /\ c.err = ""
                   /\ c.fp = Md5(c.keyAfter.id)
                   /\ c.run = run => Len(Imports) = 0
            /\ c.lookup = "notfound" =>
                   /\ c.uploads = 1
                   /\ c.run = run =>
                          /\ Len(Imports) = 1
                          /\ SubSeq(Imports[1].args, 3, 5) =
                                 <<"tcluster", "--public-key-file", "/tmp/foobar/k8s.key.pub">>
                          /\ Imports[1].ok = ~c.importErr
                   /\ ~c.importErr => (c.err = "" /\ c.fp = Md5(c.keyAfter.id))
                   /\ c.importErr =>
                          (c.fp = "" /\ c.err = "unable to upload public key: exit status 1")
            /\ c.lookup = "none" => (c.uploads = 0 /\ c.fp = "" /\ c.err # "")

\* a rerun finds the key registered by the first run
C9_Witness ==
    /\ Len(identityCalls) = 2
    /\ identityCalls[1].lookup = "notfound" /\ ~identityCalls[1].importErr
    /\ identityCalls[2].lookup = "found"

\* C10: a run reports success only when all steps completed in it: identity,
\* root and three leaf certificates, cloud-init, exactly one instance, its
\* address, the staging directory and five successful copies.
C10_SuccessMeansComplete ==
    result.status = "success" =>
        /\ pc = "done"
        /\ Len(steps) = Len(StepOrder)
        /\ \A i \in 1..Len(steps) : steps[i].status = "ok"
        /\ fingerprint # ""
        /\ initReturns = "ok"
        /\ \A f \in {"ca.pem", "apiserver.pem", "admin.pem",
                      workerCrt("worker.example.com")} : disk[f].kind = "cert"
        /\ droplets.parsed /\ Len(droplets.list) = 1
        /\ masterIP = droplets.list[1].v4[1]
        /\ \E i \in 1..Len(OpsOf("ssh")) : OpsOf("ssh")[i].ok
        /\ Len(OpsOf("scp")) = 5
        /\ \A i \in 1..Len(OpsOf("scp")) : OpsOf("scp")[i].ok

\* a successful run
C10_Witness ==
    /\ result.status = "success"
    /\ Len(OpsOf("ssh")) > 1

\* C11: the transition on which a run fails performs no compensating action:
\* no file of the working directory is deleted, no registered key is removed
\* and no instance is deleted; a failure in ConfigureMaster leaves the working
\* directory and the key registry exactly as they were.
C11_NoCompensation ==
    [][(pc # "failed" /\ pc' = "failed") =>
          /\ \A f \in Files : Exists(disk, f) => Exists(disk', f)
          /\ registry \subseteq registry'
          /\ instances' >= instances
          /\ pc \in {"render", "create_instance", "extract", "mkdir", "copy"} =>
                 (disk' = disk /\ registry' = registry)
          /\ pc \in {"extract", "mkdir", "copy"} => instances' = instances]_vars

\* a run that failed after it created an instance, registered its key and
\* wrote its certificates: all of them are still there
C11_Witness ==
    /\ pc = "failed"
    /\ instances > 0
    /\ registry # {}
    /\ OpsOf("scp") # <<>>
    /\ \A f \in {"k8s.key", "ca.pem", "apiserver.pem", "admin.pem"} : Exists(disk, f)

\* the key, request and certificate CreateWorkerKeyPair writes for a worker
WorkerCredentials(w) == {workerKey(w), workerCsr(w), workerCrt(w)}

\* every file a CreateWorkerKeyPair call writes
WorkerWrites(w) == WorkerCredentials(w) \cup {"worker-openssl.cnf", "ca.srl"}

\* C12 as claimed: issuing for worker B leaves every file previously written
\* by the issuing for another worker A unchanged.
C12_NoFileOverwritten ==
    lastCall.op = "CreateWorkerKeyPair" =>
        \A a \in WorkerNames \ {lastCall.arg} :
            Exists(lastCall.before, workerKey(a)) =>
                \A f \in WorkerWrites(a) : disk[f] = lastCall.before[f]

\* C12: issuing for worker B leaves the key, the request and the certificate
\* of every other worker unchanged.
C12_CredentialsKept ==
    lastCall.op = "CreateWorkerKeyPair" =>
        \A a \in WorkerNames \ {lastCall.arg} :
            \A f \in WorkerCredentials(a) : disk[f] = lastCall.before[f]

\* both workers' certificates are on disk after the second was issued
C12_Witness ==
    /\ lastCall.op = "CreateWorkerKeyPair"
    /\ ~lastCall.err
    /\ \A w \in WorkerNames : Exists(disk, workerCrt(w))
    /\ \E a \in WorkerNames \ {lastCall.arg} : Exists(lastCall.before, workerCrt(a))

\* C13: two CAs given the same sequence of operations and the same outcomes
\* of the signing tool, one verbose and one not, have the same files with the
\* same contents and return the same result from every operation; the verbose
\* one prints the output of each tool invocation, the other prints nothing.
C13_VerboseNoEffect ==
    /\ twin.disk = disk
    /\ twin.keys = keyCount
    /\ twin.err = lastCall.err
    /\ lastCall.printed = (IF verbose THEN lastCall.calls ELSE 0)
    /\ (IF verbose THEN twin.printed = 0 ELSE printed = 0)

\* a verbose CA has printed tool output, written a certificate and then had
\* an operation fail
C13_Witness ==
    /\ verbose
    /\ printed > 3
    /\ lastCall.err /\ lastCall.calls > 0
    /\ Exists(disk, "ca.pem")

CertFiles(d) == {f \in Files : d[f].kind = "cert"}

\* the file that holds the private key of a certificate file
KeyFileOf(c) ==
    CASE c = "ca.pem" -> "ca-key.pem"
      [] c = "apiserver.pem" -> "apiserver-key.pem"
      [] c = "admin.pem" -> "admin-key.pem"
      [] OTHER -> workerKey(CHOOSE w \in WorkerNames : workerCrt(w) = c)

HasKey(d, c) == d[KeyFileOf(c)].kind = "key" /\ d[KeyFileOf(c)].id = d[c].id

\* C14 as claimed: starting from an empty working directory, a successful
\* Init leaves exactly 5 certificate files, each with its private key file.
C14_FiveCertificates ==
    (run = 1 /\ initReturns = "ok") =>
        /\ Cardinality(CertFiles(disk)) = 5
        /\ \A c \in CertFiles(disk) : HasKey(disk, c)

\* C14: starting from an empty working directory, a successful Init leaves
\* exactly 4 certificate files (ca.pem, apiserver.pem,
\* worker.example.com-worker.pem, admin.pem), each with its private key file.
C14_FourCertificates ==
    (run = 1 /\ initReturns = "ok") =>
        /\ Cardinality(CertFiles(disk)) = 4
        /\ CertFiles(disk) =
               {"ca.pem", "apiserver.pem", "admin.pem", workerCrt("worker.example.com")}
        /\ \A c \in CertFiles(disk) : HasKey(disk, c)

\* Init has just returned without error in the first run
C14_Witness ==
    /\ run = 1
    /\ initReturns = "ok"
    /\ pc = "render"
    /\ keyCount = 5

Creates == SelectSeq(ops, LAMBDA o : o.tool = "doit" /\ o.args[1] = "droplet")

\* the fingerprint the CreateSSHKey call of the current run returned
ReturnedFingerprint == identityCalls[Len(identityCalls)].fp

\* C15 as claimed: the instance-create operation is invoked with the name
\* <cluster>-master-<region>.
C15_NameWithoutPrefix ==
    \A i \in 1..Len(Creates) : Creates[i].args[3] = "tcluster-master-nyc1"

\* C15: the instance-create operation is invoked once, with the name
\* cs-<cluster>-master-<region>, the image, the region, the size, the
\* fingerprint returned by EnsureIdentity, the path of the rendered cloud-init
\* file and the wait flag.
C15_CreateArguments ==
    /\ Len(Creates) <= 1
    /\ \A i \in 1..Len(Creates) :
           /\ identityCalls[Len(identityCalls)].run = run
           /\ ReturnedFingerprint # ""
           /\ run \in tmp \/ Terminal
           /\ Creates[i].args =
                  <<"droplet", "create", "cs-tcluster-master-nyc1",
                    "--output", "json", "--image", "coreos-alpha",
                    "--region", "nyc1", "--size", "4gb",
                    "--ssh-keys", ReturnedFingerprint,
                    "--user-data-file", "/tmp/mcc" \o ToString(run), "--wait",
                    "-o", "json">>

\* the create operation was invoked and accepted
C15_Witness ==
    /\ Len(Creates) = 1
    /\ Creates[1].ok
    /\ pc = "extract"

\* C16: when the single record returned by the create call has no IPv4
\* address, the run ends at ExtractAddress without success: no address is
\* used in its place, InstallCredentials is not entered and no ssh or scp
\* operation is issued.
C16_NoAddressFailsFast ==
    (/\ droplets.parsed
     /\ Len(droplets.list) = 1
     /\ Len(droplets.list[1].v4) = 0
     /\ pc # "extract") =>
        /\ pc = "failed"
        /\ result.status \in {"failed", "panic"}
        /\ steps[Len(steps)] = Step("ExtractAddress", "failed")
        /\ masterIP = ""
        /\ Len(OpsOf("ssh")) = 0
        /\ Len(OpsOf("scp")) = 0

\* the run ended on a record without an address
C16_Witness ==
    /\ droplets.parsed
    /\ Len(droplets.list) = 1
    /\ Len(droplets.list[1].v4) = 0
    /\ pc = "failed"
    /\ result.status = "panic"

\* C17: two concurrent CreateSSHKey runs are not serialized.  A run uploads
\* exactly when its own lookup did not find the fingerprint, whatever the
\* other run has looked up or registered in the meantime: the lookup and the
\* upload of a run are separate steps and neither waits for the other run.
C17_LookupThenUploadNotAtomic ==
    \A p \in Procs :
        /\ (pc[p] = "returned" /\ identityCalls[p].lookup = "notfound") =>
               identityCalls[p].uploads = 1
        /\ identityCalls[p].lookup = "found" => identityCalls[p].uploads = 0
        /\ (pc[p] = "import" /\ identityCalls[p].lookup = "notfound") =>
               ENABLED RaceImport(p)

\* both runs looked up the same fingerprint while it was not registered, and
\* both issued an upload of the same public key
C17_Witness ==
    /\ \A p \in Procs :
           /\ pc[p] = "returned"
           /\ identityCalls[p].lookup = "notfound"
           /\ ~identityCalls[p].registered
           /\ identityCalls[p].uploads = 1
    /\ fingerprint[1] = fingerprint[2]
    /\ keyCount = 1
    /\ Len(Imports) = 2

\* C18: the subject of a worker's certificate request is the identity of that
\* worker, so the requests of two workers have different subjects.
C18_SubjectIsWorkerName ==
    /\ \A w \in WorkerNames :
           Exists(disk, workerCsr(w)) => disk[workerCsr(w)].subject = "/CN=" \o w
    /\ \A v, w \in WorkerNames :
           (v # w /\ Exists(disk, workerCsr(v)) /\ Exists(disk, workerCsr(w))) =>
               disk[workerCsr(v)].subject # disk[workerCsr(w)].subject

\* ca.pem is the self-signed certificate of ca-key.pem
RootPair(d) ==
    /\ d["ca-key.pem"].kind = "key"
    /\ d["ca.pem"].kind = "cert"
    /\ d["ca.pem"].id = d["ca-key.pem"].id
    /\ d["ca.pem"].signer = d["ca-key.pem"].id

NoRoot(d) == ~Exists(d, "ca-key.pem") /\ ~Exists(d, "ca.pem")

\* C19 as claimed: whenever CreateRoot has returned, with or without an
\* error, ca.pem is the self-signed certificate of ca-key.pem (or, when no
\* root was ever written, both are absent).
C19_RootPairAlways ==
    lastCall.op = "CreateRoot" => (RootPair(disk) \/ NoRoot(disk))

\* C19: when CreateRoot returns without error, ca.pem is the self-signed
\* certificate of the new ca-key.pem; when it returns the error of its first
\* step, both files are as they were; when it returns the error of its
\* second step, ca-key.pem is new and ca.pem is as it was.
C19_RootPairOnSuccess ==
    lastCall.op = "CreateRoot" =>
        /\ ~lastCall.err =>
               (RootPair(disk) /\ disk["ca-key.pem"] # lastCall.before["ca-key.pem"])
        /\ lastCall.err => disk["ca.pem"] = lastCall.before["ca.pem"]
        /\ (lastCall.err /\ lastCall.calls = 1) =>
               disk["ca-key.pem"] = lastCall.before["ca-key.pem"]
        /\ (lastCall.err /\ lastCall.calls = 2) =>
               (disk["ca-key.pem"].kind = "key"
                /\ disk["ca-key.pem"] # lastCall.before["ca-key.pem"])

\* a second CreateRoot replaced an existing root
C19_Witness ==
    /\ lastCall.op = "CreateRoot"
    /\ ~lastCall.err
    /\ RootPair(lastCall.before)
    /\ RootPair(disk)

\* C20: provided every external process invocation returns, every run
\* reaches terminal success or terminal failure; the retry loop makes at most
\* 5 attempts, of which only the last can succeed, and each of the five files
\* is copied at most once.
C20_Terminates ==
    /\ (~Terminal) ~> Terminal
    /\ [](/\ Len(OpsOf("ssh")) <= 5
          /\ failCount <= 5
          /\ Len(OpsOf("scp")) <= 5
          /\ \A i, j \in 1..Len(OpsOf("scp")) :
                 i # j => OpsOf("scp")[i].args # OpsOf("scp")[j].args)

\* a run that retried the staging-directory command four times and then
\* copied all five files
C20_Witness ==
    /\ pc = "done"
    /\ failCount = 4
    /\ Len(OpsOf("ssh")) = 5
    /\ Len(OpsOf("scp")) = 5

====
